---- MODULE Spec2Model ----
(***************************************************************************)
(* chessmaster3000: pseudo-legal move generation for the side to move of   *)
(* a position read from a FEN description (src/run.js).                     *)
(*                                                                         *)
(* Ranks and files are the program's 0-based array indices: rank 0 is the  *)
(* top row of the FEN text (algebraic rank 8), file 0 is column 'a'.       *)
(* JavaScript arrays [a, b] are modelled as the tuples <<a, b>>, so the    *)
(* program's x[0], x[1] are x[1], x[2] here.                               *)
(***************************************************************************)
EXTENDS Integers, Sequences, FiniteSets

VARIABLES
    board,       \* state.board: rank -> file -> cell {p, rank, file, owner}
    playerTurn,  \* state.playerTurn: "w" or "b"
    castling,    \* state.castling: side -> {k, q}
    enPassant,   \* state.enPassant: null or <<rank, file>>
    pc,          \* "loaded" after importFile, "done" after the move list is built
    moveOptions, \* the list returned by getOptionsForPlayer
    reads,       \* the <<rank, file>> index pairs used in state.board[rank][file]
    thrown       \* TRUE iff a lookup hit an undefined row or cell (TypeError)

vars == <<board, playerTurn, castling, enPassant, pc, moveOptions, reads, thrown>>

----------------------------------------------------------------------------
(* Bounds of the checked input family                                       *)

\* Largest number of squares of a base position that are overwritten.
MaxEdits == 1

----------------------------------------------------------------------------
(* JavaScript values                                                        *)

null == "null"
NoSquare == <<>>
Sides == {"w", "b"}
Ranks == 0..7
Files == 0..7

\* What state.board[rank][file] yields outside the arrays; reading a
\* property of it throws.
undefinedCell == [p |-> "undefined", rank |-> -1, file |-> -1, owner |-> "undefined"]

gameState ==
    [board |-> board, playerTurn |-> playerTurn,
     castling |-> castling, enPassant |-> enPassant]

\* state.board[rank][file]
boardAt(state, rank, file) ==
    IF rank \in DOMAIN state.board /\ file \in DOMAIN state.board[rank]
    THEN state.board[rank][file]
    ELSE undefinedCell

----------------------------------------------------------------------------
(* importFile: the position built from the FEN fields                       *)

WhiteLetters == {"P", "N", "B", "R", "Q", "K"}

\* String.prototype.toLowerCase on a one-letter piece string
toLowerCase(piece) ==
    CASE piece = "P" -> "p" [] piece = "N" -> "n" [] piece = "B" -> "b"
      [] piece = "R" -> "r" [] piece = "Q" -> "q" [] piece = "K" -> "k"
      [] OTHER -> piece

\* One board cell from its letter ('x' for an empty square)
importCell(piece, rank, file) ==
    [p     |-> toLowerCase(piece),
     rank  |-> rank,
     file  |-> file,
     owner |-> IF piece # "x"
               THEN (IF piece \in WhiteLetters THEN "w" ELSE "b")
               ELSE null]

\* rows: the eight rank strings after digit expansion, rows[rank+1][file+1]
importBoard(rows) ==
    [rank \in 0..(Len(rows) - 1) |->
        [file \in 0..(Len(rows[rank + 1]) - 1) |->
            importCell(rows[rank + 1][file + 1], rank, file)]]

\* The castling availability field, a sequence of characters
importCastling(field) ==
    LET has(c) == field # <<"-">> /\ \E i \in 1..Len(field) : field[i] = c
    IN  [w |-> [k |-> has("K"), q |-> has("Q")],
         b |-> [k |-> has("k"), q |-> has("q")]]

charCodeAt(c) ==
    CASE c = "a" -> 97 [] c = "b" -> 98 [] c = "c" -> 99 [] c = "d" -> 100
      [] c = "e" -> 101 [] c = "f" -> 102 [] c = "g" -> 103 [] c = "h" -> 104

digitValue(c) ==
    CASE c = "1" -> 1 [] c = "2" -> 2 [] c = "3" -> 3 [] c = "4" -> 4
      [] c = "5" -> 5 [] c = "6" -> 6 [] c = "7" -> 7 [] c = "8" -> 8

\* "e6" -> <<2, 4>>
notationToRankFile(note) ==
    <<8 - digitValue(note[2]), charCodeAt(note[1]) - 97>>

importEnPassant(field) ==
    IF field = <<"-">> THEN NoSquare ELSE notationToRankFile(field)

----------------------------------------------------------------------------
(* Geometry predicates                                                      *)

\* Faulty variant: the upper bounds taken inclusive of 8
onBoard_through8(rank, file) ==
    rank >= 0 /\ rank <= 8 /\ file >= 0 /\ file <= 8

onBoard(rank, file) ==
    rank >= 0 /\ rank <= 7 /\ file >= 0 /\ file <= 7

pieceAt(rank, file, state) ==
    onBoard(rank, file) /\ boardAt(state, rank, file).owner # null

ownedPieceAt(rank, file, player, state) ==
    onBoard(rank, file) /\ boardAt(state, rank, file).owner = player

\* Faulty variant: the owner test left out
movableSpace_anyOwner(rank, file, player, state) ==
    rank >= 0 /\ rank <= 7 /\ file >= 0 /\ file <= 7

movableSpace(rank, file, player, state) ==
    onBoard(rank, file)
    /\ (boardAt(state, rank, file).owner = null
        \/ boardAt(state, rank, file).owner # player)

\* Faulty variant: only the rank of the target compared
isEnPassant_rankOnly(rank, file, state) ==
    state.enPassant # NoSquare /\ state.enPassant[1] = rank

\* The function enPassant (state.enPassant is the variable of that name)
isEnPassant(rank, file, state) ==
    state.enPassant # NoSquare
    /\ state.enPassant[1] = rank /\ state.enPassant[2] = file

\* The index pairs each predicate hands to state.board[rank][file]: the
\* lookup is the right operand of &&, evaluated only when onBoard holds.
lookupReads(rank, file) ==
    IF onBoard(rank, file) THEN {<<rank, file>>} ELSE {}

----------------------------------------------------------------------------
(* Symmetric direction sets (a Set of stringified vectors)                  *)

\* Number.prototype.toString for the offsets in use; -0 prints as "0"
numToString(n) ==
    CASE n = -2 -> "-2" [] n = -1 -> "-1" [] n = 0 -> "0"
      [] n = 1 -> "1" [] n = 2 -> "2"

parseInt(s) ==
    CASE s = "-2" -> -2 [] s = "-1" -> -1 [] s = "0" -> 0
      [] s = "1" -> 1 [] s = "2" -> 2

\* Array.prototype.toString of a two-element vector: the two numerals that
\* the program joins with "," and later splits at ","
dirToString(dir) == <<numToString(dir[1]), numToString(dir[2])>>

dirFromString(dirStr) == <<parseInt(dirStr[1]), parseInt(dirStr[2])>>

\* Faulty variant: an array push in place of Set.prototype.add
setAdd_push(set, v) == Append(set, v)

\* Set.prototype.add on the insertion-ordered value list
setAdd(set, v) ==
    IF \E i \in 1..Len(set) : set[i] = v THEN set ELSE Append(set, v)

mirrorInto(set, dir) ==
    setAdd(setAdd(setAdd(setAdd(set,
        dirToString(dir)),
        dirToString(<<dir[1] * (-1), dir[2]>>)),
        dirToString(<<dir[1], dir[2] * (-1)>>)),
        dirToString(<<dir[1] * (-1), dir[2] * (-1)>>))

RECURSIVE symmetricalDirs(_)
symmetricalDirs(dirs) ==
    IF dirs = <<>> THEN <<>>
    ELSE mirrorInto(symmetricalDirs(SubSeq(dirs, 1, Len(dirs) - 1)), dirs[Len(dirs)])

\* The parsed direction vectors in Set order
parsedDirs(dirs) ==
    LET strs == symmetricalDirs(dirs)
    IN  [i \in 1..Len(strs) |-> dirFromString(strs[i])]

----------------------------------------------------------------------------
(* Leapers (knight, king)                                                   *)

\* Faulty variant: the movableSpace filter left out
leaper_unfiltered(dirs, p, state) ==
    LET all == parsedDirs(dirs)
    IN  [i \in 1..Len(all) |-> <<p.rank + all[i][1], p.file + all[i][2]>>]

leaper(dirs, p, state) ==
    LET rank == p.rank
        file == p.file
        keep(dir) == movableSpace(rank + dir[1], file + dir[2], p.owner, state)
        kept == SelectSeq(parsedDirs(dirs), keep)
    IN  [i \in 1..Len(kept) |-> <<rank + kept[i][1], file + kept[i][2]>>]

leaperReads(dirs, p, state) ==
    LET all == parsedDirs(dirs)
    IN  UNION {lookupReads(p.rank + all[i][1], p.file + all[i][2]) : i \in 1..Len(all)}

----------------------------------------------------------------------------
(* Riders (rook, bishop, queen)                                             *)

\* The while loop of getAllSpacesInDir: the squares pushed and where pos ends
RECURSIVE walk(_, _, _, _)
walk(pos, dir, state, spaces) ==
    IF onBoard(pos[1], pos[2]) /\ ~pieceAt(pos[1], pos[2], state)
    THEN walk(<<pos[1] + dir[1], pos[2] + dir[2]>>, dir, state, Append(spaces, pos))
    ELSE [pos |-> pos, spaces |-> spaces]

\* Faulty variant: the piece that ends the walk added whoever owns it
getAllSpacesInDir_anyPiece(dir, p, state) ==
    LET end == walk(<<p.rank + dir[1], p.file + dir[2]>>, dir, state, <<>>)
    IN  IF pieceAt(end.pos[1], end.pos[2], state)
        THEN Append(end.spaces, end.pos)
        ELSE end.spaces

getAllSpacesInDir(dir, p, state) ==
    LET opponent == IF p.owner = "w" THEN "b" ELSE "w"
        end == walk(<<p.rank + dir[1], p.file + dir[2]>>, dir, state, <<>>)
    IN  IF ownedPieceAt(end.pos[1], end.pos[2], opponent, state)
        THEN Append(end.spaces, end.pos)
        ELSE end.spaces

\* Every pos the loop condition and the final ownedPieceAt test
getAllSpacesInDirReads(dir, p, state) ==
    LET end == walk(<<p.rank + dir[1], p.file + dir[2]>>, dir, state, <<>>)
    IN  UNION {lookupReads(end.spaces[i][1], end.spaces[i][2]) : i \in 1..Len(end.spaces)}
        \cup lookupReads(end.pos[1], end.pos[2])

RECURSIVE concatSpaces(_, _, _, _)
concatSpaces(dirSeq, n, p, state) ==
    IF n = 0 THEN <<>>
    ELSE concatSpaces(dirSeq, n - 1, p, state) \o getAllSpacesInDir(dirSeq[n], p, state)

rider(dirs, p, state) ==
    LET all == parsedDirs(dirs)
    IN  concatSpaces(all, Len(all), p, state)

riderReads(dirs, p, state) ==
    LET all == parsedDirs(dirs)
    IN  UNION {getAllSpacesInDirReads(all[i], p, state) : i \in 1..Len(all)}

----------------------------------------------------------------------------
(* The rule table                                                           *)

rules_p(p, state) ==
    LET rank == p.rank
        file == p.file
        side == IF p.owner = "w" THEN -1 ELSE 1
        opponent == IF p.owner = "w" THEN "b" ELSE "w"
        regular ==
            IF movableSpace(rank + side, file, opponent, state)
            THEN <<(<<rank + side, file>>)>> ELSE <<>>
        twoSpace ==
            IF side = 1 /\ rank = 1 /\ ~pieceAt(rank + 1, file, state)
            THEN <<(<<rank + 2, file>>)>>
            ELSE IF side = -1 /\ rank = 6 /\ ~pieceAt(rank - 1, file, state)
            THEN <<(<<rank - 2, file>>)>>
            ELSE <<>>
        attackRight ==
            IF ownedPieceAt(rank + side, file + 1, opponent, state)
               \/ isEnPassant(rank + side, file + 1, state)
            THEN <<(<<rank + side, file + 1>>)>> ELSE <<>>
        attackLeft ==
            IF ownedPieceAt(rank + side, file - 1, opponent, state)
               \/ isEnPassant(rank + side, file - 1, state)
            THEN <<(<<rank + side, file - 1>>)>> ELSE <<>>
    IN  regular \o twoSpace \o attackRight \o attackLeft

rules_pReads(p, state) ==
    LET rank == p.rank
        file == p.file
        side == IF p.owner = "w" THEN -1 ELSE 1
    IN  lookupReads(rank + side, file)
        \cup (IF side = 1 /\ rank = 1 THEN lookupReads(rank + 1, file)
              ELSE IF side = -1 /\ rank = 6 THEN lookupReads(rank - 1, file)
              ELSE {})
        \cup lookupReads(rank + side, file + 1)
        \cup lookupReads(rank + side, file - 1)

knightDirs == <<(<<2, 1>>), (<<1, 2>>)>>
rookDirs   == <<(<<1, 0>>), (<<0, 1>>)>>
bishopDirs == <<(<<1, 1>>)>>
queenDirs  == <<(<<1, 0>>), (<<0, 1>>), (<<1, 1>>)>>
kingDirs   == <<(<<1, 0>>), (<<0, 1>>), (<<1, 1>>)>>

rules_n(p, state) == leaper(knightDirs, p, state)
rules_r(p, state) == rider(rookDirs, p, state)
rules_b(p, state) == rider(bishopDirs, p, state)
rules_q(p, state) == rider(queenDirs, p, state)
rules_k(p, state) == leaper(kingDirs, p, state)

\* rules[piece.p](piece, state)
rules(p, state) ==
    CASE p.p = "p" -> rules_p(p, state)
      [] p.p = "n" -> rules_n(p, state)
      [] p.p = "r" -> rules_r(p, state)
      [] p.p = "b" -> rules_b(p, state)
      [] p.p = "q" -> rules_q(p, state)
      [] p.p = "k" -> rules_k(p, state)

rulesReads(p, state) ==
    CASE p.p = "p" -> rules_pReads(p, state)
      [] p.p = "n" -> leaperReads(knightDirs, p, state)
      [] p.p = "r" -> riderReads(rookDirs, p, state)
      [] p.p = "b" -> riderReads(bishopDirs, p, state)
      [] p.p = "q" -> riderReads(queenDirs, p, state)
      [] p.p = "k" -> leaperReads(kingDirs, p, state)

----------------------------------------------------------------------------
(* Move lists                                                               *)

\* A move record; castle is absent (falsy) on ordinary moves
getOptionsForPiece(piece, state) ==
    LET movesForPiece == rules(piece, state)
    IN  [i \in 1..Len(movesForPiece) |->
            [piece    |-> piece.p,
             fromRank |-> piece.rank,
             fromFile |-> piece.file,
             toRank   |-> movesForPiece[i][1],
             toFile   |-> movesForPiece[i][2],
             castle   |-> FALSE]]

castleMove(piece, rank, fromFile, toFile) ==
    [piece |-> piece, fromRank |-> rank, fromFile |-> fromFile,
     toRank |-> rank, toFile |-> toFile, castle |-> TRUE]

\* Faulty variant: queenside tests files 2 and 3 only
getCastlingOptions_skipFile1(player, state) ==
    LET rights == state.castling[player]
        rank == IF player = "w" THEN 7 ELSE 0
        kingside ==
            IF rights.k /\ ~pieceAt(rank, 5, state) /\ ~pieceAt(rank, 6, state)
            THEN <<castleMove("k", rank, 4, 6), castleMove("r", rank, 7, 5)>>
            ELSE <<>>
        queenside ==
            IF rights.q /\ ~pieceAt(rank, 2, state) /\ ~pieceAt(rank, 3, state)
            THEN <<castleMove("k", rank, 4, 2), castleMove("r", rank, 0, 3)>>
            ELSE <<>>
    IN  kingside \o queenside

getCastlingOptions(player, state) ==
    LET rights == state.castling[player]
        rank == IF player = "w" THEN 7 ELSE 0
        kingside ==
            IF rights.k /\ ~pieceAt(rank, 5, state) /\ ~pieceAt(rank, 6, state)
            THEN <<castleMove("k", rank, 4, 6), castleMove("r", rank, 7, 5)>>
            ELSE <<>>
        queenside ==
            IF rights.q /\ ~pieceAt(rank, 1, state) /\ ~pieceAt(rank, 2, state)
               /\ ~pieceAt(rank, 3, state)
            THEN <<castleMove("k", rank, 4, 2), castleMove("r", rank, 0, 3)>>
            ELSE <<>>
    IN  kingside \o queenside

\* && stops at the first false operand
getCastlingOptionsReads(player, state) ==
    LET rights == state.castling[player]
        rank == IF player = "w" THEN 7 ELSE 0
    IN  (IF rights.k
         THEN lookupReads(rank, 5)
              \cup (IF ~pieceAt(rank, 5, state) THEN lookupReads(rank, 6) ELSE {})
         ELSE {})
        \cup
        (IF rights.q
         THEN lookupReads(rank, 1)
              \cup (IF ~pieceAt(rank, 1, state)
                    THEN lookupReads(rank, 2)
                         \cup (IF ~pieceAt(rank, 2, state)
                               THEN lookupReads(rank, 3) ELSE {})
                    ELSE {})
         ELSE {})

\* The board cells in row-major order
boardCells(state) ==
    [k \in 1..64 |-> state.board[(k - 1) \div 8][(k - 1) % 8]]

\* Faulty variant: every occupied cell taken, whoever owns it
playersPieces_allOwners(state, player) ==
    LET occupied(col) == col.owner # null
    IN  SelectSeq(boardCells(state), occupied)

playersPieces(state, player) ==
    LET mine(col) == col.owner = player
    IN  SelectSeq(boardCells(state), mine)

RECURSIVE concatOptions(_, _, _)
concatOptions(pieces, n, state) ==
    IF n = 0 THEN <<>>
    ELSE concatOptions(pieces, n - 1, state) \o getOptionsForPiece(pieces[n], state)

getOptionsForPlayer(state, player) ==
    LET pieces == playersPieces(state, player)
    IN  concatOptions(pieces, Len(pieces), state) \o getCastlingOptions(player, state)

getOptionsForPlayerReads(state, player) ==
    LET pieces == playersPieces(state, player)
    IN  UNION {rulesReads(pieces[i], state) : i \in 1..Len(pieces)}
        \cup getCastlingOptionsReads(player, state)

----------------------------------------------------------------------------
(* Input positions                                                          *)

\* row.replace(/\d/g, digit => 'x'.repeat(parseInt(digit))).split('')
RECURSIVE expandRow(_)
expandRow(row) ==
    IF row = <<>> THEN <<>>
    ELSE IF Head(row) \in {"1", "2", "3", "4", "5", "6", "7", "8"}
         THEN [i \in 1..digitValue(Head(row)) |-> "x"] \o expandRow(Tail(row))
         ELSE <<Head(row)>> \o expandRow(Tail(row))

expandRows(rows) == [i \in 1..Len(rows) |-> expandRow(rows[i])]

\* The piece placement, castling and en passant fields of input files, as
\* character sequences. The README describes its inputs in one line each;
\* the positions below fit the descriptions of inputs 1, 3, 5, 6, 7 and 8.
\* The last one keeps a castling field that names a side without pieces,
\* which importFile accepts like any other.
StartInput ==  \* normal starting game state
    [rows |-> << <<"r","n","b","q","k","b","n","r">>,
                 <<"p","p","p","p","p","p","p","p">>,
                 <<"8">>, <<"8">>, <<"8">>, <<"8">>,
                 <<"P","P","P","P","P","P","P","P">>,
                 <<"R","N","B","Q","K","B","N","R">> >>,
     castling |-> <<"K","Q","k","q">>, enPassant |-> <<"-">>]

AfterC5Input ==  \* after 1. e4 c5
    [rows |-> << <<"r","n","b","q","k","b","n","r">>,
                 <<"p","p","1","p","p","p","p","p">>,
                 <<"8">>, <<"2","p","5">>, <<"4","P","3">>, <<"8">>,
                 <<"P","P","P","P","1","P","P","P">>,
                 <<"R","N","B","Q","K","B","N","R">> >>,
     castling |-> <<"K","Q","k","q">>, enPassant |-> <<"c","6">>]

EnPassantInput ==  \* en passant example: black pawn d4 beside the pawn that played e2-e4
    [rows |-> << <<"r","n","b","q","k","b","n","r">>,
                 <<"p","p","p","1","p","p","p","p">>,
                 <<"8">>, <<"8">>, <<"3","p","P","3">>, <<"8">>,
                 <<"P","P","P","P","1","P","P","P">>,
                 <<"R","N","B","Q","K","B","N","R">> >>,
     castling |-> <<"K","Q","k","q">>, enPassant |-> <<"e","3">>]

CastlingInput ==  \* castling example
    [rows |-> << <<"r","3","k","2","r">>,
                 <<"p","p","p","p","p","p","p","p">>,
                 <<"8">>, <<"8">>, <<"8">>, <<"8">>,
                 <<"P","P","P","P","P","P","P","P">>,
                 <<"R","3","K","2","R">> >>,
     castling |-> <<"K","Q","k","q">>, enPassant |-> <<"-">>]

NoWhitePawnsInput ==  \* no white pawns, partial castling rights
    [rows |-> << <<"r","1","b","q","k","2","r">>,
                 <<"p","p","3","p","p","p">>,
                 <<"2","n","2","n","2">>, <<"2","b","5">>, <<"8">>,
                 <<"2","N","2","N","2">>, <<"8">>,
                 <<"R","1","B","Q","K","2","R">> >>,
     castling |-> <<"K","q">>, enPassant |-> <<"-">>]

QueenInput ==  \* queen on an empty board
    [rows |-> << <<"8">>, <<"8">>, <<"8">>, <<"8">>,
                 <<"3","Q","4">>, <<"8">>, <<"8">>, <<"8">> >>,
     castling |-> <<"-">>, enPassant |-> <<"-">>]

BareRightsInput ==  \* white king and rook only, castling field still naming black
    [rows |-> << <<"8">>, <<"8">>, <<"8">>, <<"8">>,
                 <<"8">>, <<"8">>, <<"8">>, <<"4","K","2","R">> >>,
     castling |-> <<"K","k","q">>, enPassant |-> <<"-">>]

Inputs ==
    {StartInput, AfterC5Input, EnPassantInput, CastlingInput,
     NoWhitePawnsInput, QueenInput, BareRightsInput}

\* Squares and letters with which an input's placement is varied
EditSquares ==
    {<<0, 0>>, <<0, 1>>, <<2, 3>>, <<3, 3>>, <<4, 4>>, <<5, 4>>, <<7, 6>>, <<7, 7>>}

EditLetters == {"x", "P", "p", "Q", "r", "N", "k"}

Edits == [rank : Ranks, file : Files, piece : EditLetters]

squareIndex(e) == e.rank * 8 + e.file

\* Up to MaxEdits overwritten squares, pairwise distinct
EditLists ==
    {es \in UNION {[1..n -> {e \in Edits : <<e.rank, e.file>> \in EditSquares}] : n \in 0..MaxEdits} :
        \A i \in 1..Len(es) : \A j \in 1..Len(es) :
            i < j => squareIndex(es[i]) < squareIndex(es[j])}

editRows(cols, edits) ==
    [r \in 1..Len(cols) |->
        [f \in 1..Len(cols[r]) |->
            IF \E i \in 1..Len(edits) : edits[i].rank = r - 1 /\ edits[i].file = f - 1
            THEN (CHOOSE e \in {edits[i] : i \in 1..Len(edits)} :
                      e.rank = r - 1 /\ e.file = f - 1).piece
            ELSE cols[r][f]]]

----------------------------------------------------------------------------
(* The program                                                              *)

\* let gameState = importFile(process.argv[2])
Init ==
    \E input \in Inputs : \E edits \in EditLists : \E turn \in Sides :
        /\ board = importBoard(editRows(expandRows(input.rows), edits))
        /\ playerTurn = turn
        /\ castling = importCastling(input.castling)
        /\ enPassant = importEnPassant(input.enPassant)
        /\ pc = "loaded"
        /\ moveOptions = <<>>
        /\ reads = {}
        /\ thrown = FALSE

\* var moveOptions = getOptionsForPlayer(gameState, gameState.playerTurn)
Generate ==
    /\ pc = "loaded"
    /\ LET looked == getOptionsForPlayerReads(gameState, playerTurn)
       IN  /\ reads' = looked
           /\ thrown' = (\E sq \in looked :
                            boardAt(gameState, sq[1], sq[2]) = undefinedCell)
           /\ moveOptions' = IF thrown' THEN <<>>
                             ELSE getOptionsForPlayer(gameState, playerTurn)
    /\ pc' = "done"
    /\ UNCHANGED <<board, playerTurn, castling, enPassant>>

Next == Generate

Spec == Init /\ [][Next]_vars

----------------------------------------------------------------------------
(* Vocabulary of the properties                                             *)

Done == pc = "done"

Squares == Ranks \X Files

opposite(S) == IF S = "w" THEN "b" ELSE "w"

forward(S) == IF S = "w" THEN -1 ELSE 1

homeRank(S) == IF S = "w" THEN 7 ELSE 0

startRank(S) == IF S = "w" THEN 6 ELSE 1

inRange(rank, file) == rank \in Ranks /\ file \in Files

ownerAt(rank, file) == board[rank][file].owner

isEmpty(rank, file) == inRange(rank, file) /\ ownerAt(rank, file) = null

heldBy(rank, file, S) == inRange(rank, file) /\ ownerAt(rank, file) = S

\* The squares holding a piece of one of the kinds, owned by the side to move
moverPieces(kinds) ==
    {sq \in Squares : ownerAt(sq[1], sq[2]) = playerTurn /\ board[sq[1]][sq[2]].p \in kinds}

\* The ordinary (non-castle) records of the list that start at a square
recordsFrom(rank, file) ==
    LET from(m) == ~m.castle /\ m.fromRank = rank /\ m.fromFile = file
    IN  SelectSeq(moveOptions, from)

destsFrom(rank, file) ==
    LET rs == recordsFrom(rank, file)
    IN  {<<rs[i].toRank, rs[i].toFile>> : i \in 1..Len(rs)}

castleRecords ==
    LET isCastle(m) == m.castle
    IN  SelectSeq(moveOptions, isCastle)

ordinaryRecords ==
    LET plain(m) == ~m.castle
    IN  SelectSeq(moveOptions, plain)

kingsideCondition(S) ==
    castling[S].k /\ isEmpty(homeRank(S), 5) /\ isEmpty(homeRank(S), 6)

queensideCondition(S) ==
    castling[S].q /\ isEmpty(homeRank(S), 1) /\ isEmpty(homeRank(S), 2)
    /\ isEmpty(homeRank(S), 3)

kingsidePair(S) ==
    << [piece |-> "k", fromRank |-> homeRank(S), fromFile |-> 4,
        toRank |-> homeRank(S), toFile |-> 6, castle |-> TRUE],
       [piece |-> "r", fromRank |-> homeRank(S), fromFile |-> 7,
        toRank |-> homeRank(S), toFile |-> 5, castle |-> TRUE] >>

queensidePair(S) ==
    << [piece |-> "k", fromRank |-> homeRank(S), fromFile |-> 4,
        toRank |-> homeRank(S), toFile |-> 2, castle |-> TRUE],
       [piece |-> "r", fromRank |-> homeRank(S), fromFile |-> 0,
        toRank |-> homeRank(S), toFile |-> 3, castle |-> TRUE] >>

----------------------------------------------------------------------------
(* Castling                                                                 *)

\* C1: for each side and wing, the castle records of the wing are produced
\* iff the side's rights flag for the wing is set and the squares between
\* king and rook on the home rank are empty; a produced wing is exactly its
\* king record and its rook record, both flagged castle, never one alone.
\* Stated of the rule for both sides, and of the list built for the mover.
C1_CastlingIffRightsAndEmpty ==
    /\ \A S \in Sides :
          getCastlingOptions(S, gameState) =
              (IF kingsideCondition(S) THEN kingsidePair(S) ELSE <<>>)
              \o (IF queensideCondition(S) THEN queensidePair(S) ELSE <<>>)
    /\ Done =>
          castleRecords =
              (IF kingsideCondition(playerTurn) THEN kingsidePair(playerTurn) ELSE <<>>)
              \o (IF queensideCondition(playerTurn) THEN queensidePair(playerTurn) ELSE <<>>)

\* A list with the kingside pair produced and the queenside pair withheld
\* although the queenside right is set (a piece stands on file 1, 2 or 3).
C1_Witness ==
    /\ Done
    /\ castling[playerTurn].k /\ castling[playerTurn].q
    /\ kingsideCondition(playerTurn)
    /\ ~queensideCondition(playerTurn)
    /\ castleRecords = kingsidePair(playerTurn)

----------------------------------------------------------------------------
(* Pawns                                                                    *)

\* C2: a pawn's single-push square is produced iff it is on the board and
\* holds no piece of either side.
C2_SinglePushIffEmpty ==
    Done =>
        \A sq \in moverPieces({"p"}) :
            LET to == <<sq[1] + forward(playerTurn), sq[2]>>
            IN  (to \in destsFrom(sq[1], sq[2])) <=> isEmpty(to[1], to[2])

\* C3: a pawn's double-push square is produced only from the starting rank
\* and only if the one-step and the two-step squares are both empty.
C3_DoublePushOnlyIfBothEmpty ==
    Done =>
        \A sq \in moverPieces({"p"}) :
            LET one == <<sq[1] + forward(playerTurn), sq[2]>>
                two == <<sq[1] + 2 * forward(playerTurn), sq[2]>>
            IN  (two \in destsFrom(sq[1], sq[2])) =>
                    /\ sq[1] = startRank(playerTurn)
                    /\ isEmpty(one[1], one[2])
                    /\ isEmpty(two[1], two[2])

\* The pawn's destinations were there no en passant target
destsWithoutTarget(sq) ==
    LET ds == rules_p(board[sq[1]][sq[2]], [gameState EXCEPT !.enPassant = NoSquare])
    IN  {ds[i] : i \in 1..Len(ds)}

\* C5: each diagonal-forward square of a pawn is produced iff it holds a
\* piece of the opposite side or is the en passant target; an empty
\* diagonal-forward target adds exactly one record, to the target, to what
\* the pawn has without a target.
C5_DiagonalIffOpponentOrTarget ==
    Done =>
        \A sq \in moverPieces({"p"}) : \A df \in {1, -1} :
            LET to == <<sq[1] + forward(playerTurn), sq[2] + df>>
            IN  /\ (to \in destsFrom(sq[1], sq[2])) <=>
                       (heldBy(to[1], to[2], opposite(playerTurn)) \/ enPassant = to)
                /\ (enPassant = to /\ isEmpty(to[1], to[2])) =>
                       /\ to \notin destsWithoutTarget(sq)
                       /\ destsFrom(sq[1], sq[2]) = destsWithoutTarget(sq) \cup {to}
                       /\ Len(recordsFrom(sq[1], sq[2])) =
                              Len(rules_p(board[sq[1]][sq[2]],
                                          [gameState EXCEPT !.enPassant = NoSquare])) + 1

\* A pawn of the mover has the empty en passant target diagonally ahead and
\* a record onto it.
C5_Witness ==
    /\ Done
    /\ \E sq \in moverPieces({"p"}) : \E df \in {1, -1} :
          LET to == <<sq[1] + forward(playerTurn), sq[2] + df>>
          IN  enPassant = to /\ isEmpty(to[1], to[2]) /\ to \in destsFrom(sq[1], sq[2])

----------------------------------------------------------------------------
(* Sliders                                                                  *)

straightRays == {<<1, 0>>, <<-1, 0>>, <<0, 1>>, <<0, -1>>}
diagonalRays == {<<1, 1>>, <<1, -1>>, <<-1, 1>>, <<-1, -1>>}

raysOf(kind) ==
    CASE kind = "r" -> straightRays
      [] kind = "b" -> diagonalRays
      [] kind = "q" -> straightRays \cup diagonalRays

\* The square n steps from sq along ray
step(sq, ray, n) == <<sq[1] + n * ray[1], sq[2] + n * ray[2]>>

\* Squares 1..n-1 along the ray are all on the board and empty
clearBefore(sq, ray, n) ==
    \A j \in 1..(n - 1) : isEmpty(step(sq, ray, j)[1], step(sq, ray, j)[2])

\* The empty run of each ray, and the first occupied square after it when
\* the other side holds it
sliderSquares(sq, kind, S) ==
    {t \in Squares :
        \E ray \in raysOf(kind) : \E n \in 1..7 :
            /\ t = step(sq, ray, n)
            /\ clearBefore(sq, ray, n)
            /\ (isEmpty(t[1], t[2]) \/ heldBy(t[1], t[2], opposite(S)))}

\* C4: a rook, bishop or queen reaches, along each ray, exactly the empty
\* squares before the first occupied or off-board square, plus that first
\* occupied square iff the other side holds it; so nothing lies past the
\* first occupied square and nothing is held by the piece's own side.
C4_SliderStopsAtFirstPiece ==
    Done =>
        \A sq \in moverPieces({"r", "b", "q"}) :
            /\ destsFrom(sq[1], sq[2]) =
                   sliderSquares(sq, board[sq[1]][sq[2]].p, playerTurn)
            /\ \A t \in destsFrom(sq[1], sq[2]) : ~heldBy(t[1], t[2], playerTurn)

\* A slider of the mover with one ray ending in a capture after an empty
\* square and another ray cut short by a piece of its own side.
C4_Witness ==
    /\ Done
    /\ \E sq \in moverPieces({"r", "b", "q"}) :
          LET rays == raysOf(board[sq[1]][sq[2]].p)
          IN  /\ \E ray \in rays : \E n \in 2..7 :
                    /\ clearBefore(sq, ray, n)
                    /\ heldBy(step(sq, ray, n)[1], step(sq, ray, n)[2], opposite(playerTurn))
                    /\ step(sq, ray, n) \in destsFrom(sq[1], sq[2])
              /\ \E ray \in rays : \E n \in 2..6 :
                    /\ clearBefore(sq, ray, n)
                    /\ heldBy(step(sq, ray, n)[1], step(sq, ray, n)[2], playerTurn)
                    /\ inRange(step(sq, ray, n + 1)[1], step(sq, ray, n + 1)[2])
                    /\ step(sq, ray, n) \notin destsFrom(sq[1], sq[2])

----------------------------------------------------------------------------
(* Leapers                                                                  *)

abs(n) == IF n < 0 THEN -n ELSE n

knightOffsets ==
    {d \in (-2..2) \X (-2..2) : {abs(d[1]), abs(d[2])} = {1, 2}}

kingOffsets ==
    {d \in (-1..1) \X (-1..1) : d # <<0, 0>>}

offsetsOf(kind) == IF kind = "n" THEN knightOffsets ELSE kingOffsets

leaperSquares(sq, kind, S) ==
    {t \in Squares :
        /\ \E d \in offsetsOf(kind) : t = <<sq[1] + d[1], sq[2] + d[2]>>
        /\ (isEmpty(t[1], t[2]) \/ heldBy(t[1], t[2], opposite(S)))}

\* C10: a knight or king gets, each once, exactly the squares at its eight
\* offsets that are on the board and empty or held by the other side; no
\* other square's occupancy matters.
C10_LeaperExactlyReachableOffsets ==
    Done =>
        \A sq \in moverPieces({"n", "k"}) :
            LET rs == recordsFrom(sq[1], sq[2])
            IN  /\ destsFrom(sq[1], sq[2]) =
                       leaperSquares(sq, board[sq[1]][sq[2]].p, playerTurn)
                /\ \A i \in 1..Len(rs) : \A j \in 1..Len(rs) :
                       (rs[i] = rs[j]) => (i = j)

\* A knight of the mover with an offset off the board and a piece on an
\* adjacent square captures on one of its offsets, and a leaper of the mover
\* is denied an offset square that its own side holds.
C10_Witness ==
    /\ Done
    /\ \E sq \in moverPieces({"n"}) :
          /\ \E d \in knightOffsets : ~inRange(sq[1] + d[1], sq[2] + d[2])
          /\ \E d \in kingOffsets :
                inRange(sq[1] + d[1], sq[2] + d[2]) /\ ~isEmpty(sq[1] + d[1], sq[2] + d[2])
          /\ \E d \in knightOffsets :
                /\ heldBy(sq[1] + d[1], sq[2] + d[2], opposite(playerTurn))
                /\ <<sq[1] + d[1], sq[2] + d[2]>> \in destsFrom(sq[1], sq[2])
    /\ \E sq \in moverPieces({"n", "k"}) :
          \E d \in offsetsOf(board[sq[1]][sq[2]].p) :
                /\ heldBy(sq[1] + d[1], sq[2] + d[2], playerTurn)
                /\ <<sq[1] + d[1], sq[2] + d[2]>> \notin destsFrom(sq[1], sq[2])

\* C8: every destination of a knight, king, rook, bishop or queen is on the
\* board.
C8_DestinationsOnBoard ==
    Done =>
        \A sq \in moverPieces({"n", "k", "r", "b", "q"}) :
            \A t \in destsFrom(sq[1], sq[2]) : t[1] \in 0..7 /\ t[2] \in 0..7

\* A leaper and a slider of the mover each stand on the board's edge and
\* each have a destination.
C8_Witness ==
    /\ Done
    /\ \E sq \in moverPieces({"n", "k"}) :
          (sq[1] \in {0, 7} \/ sq[2] \in {0, 7}) /\ destsFrom(sq[1], sq[2]) # {}
    /\ \E sq \in moverPieces({"r", "b", "q"}) :
          (sq[1] \in {0, 7} \/ sq[2] \in {0, 7}) /\ destsFrom(sq[1], sq[2]) # {}

----------------------------------------------------------------------------
(* Board lookups                                                            *)

\* C9: while the list is built, state.board[rank][file] is only ever read
\* with rank and file in 0..7, so no lookup fails.
C9_LookupsOnBoard ==
    Done => (~thrown /\ \A sq \in reads : sq[1] \in 0..7 /\ sq[2] \in 0..7)

\* The mover has a pawn with no rank ahead of it and a pawn on an outer
\* file; the list was built from lookups and none failed.
C9_Witness ==
    /\ Done
    /\ ~thrown
    /\ reads # {}
    /\ \E sq \in moverPieces({"p"}) : ~inRange(sq[1] + forward(playerTurn), sq[2])
    /\ \E sq \in moverPieces({"p"}) : sq[2] \in {0, 7} /\ destsFrom(sq[1], sq[2]) # {}

----------------------------------------------------------------------------
(* The whole list                                                           *)

startBoard == importBoard(expandRows(StartInput.rows))

allRights == [w |-> [k |-> TRUE, q |-> TRUE], b |-> [k |-> TRUE, q |-> TRUE]]

countOf(kinds) ==
    LET ofKind(m) == ~m.castle /\ m.piece \in kinds
    IN  Len(SelectSeq(moveOptions, ofKind))

\* C6: from the starting position with White to move and all four rights
\* set the list has exactly 20 records: a single and a double push for each
\* of the 8 pawns, 4 knight moves, nothing for rook, bishop, queen or king,
\* and no castle record.
C6_StartPositionTwentyMoves ==
    (Done /\ board = startBoard /\ playerTurn = "w" /\ castling = allRights) =>
        /\ Len(moveOptions) = 20
        /\ countOf({"p"}) = 16
        /\ \A f \in Files : destsFrom(6, f) = {<<5, f>>, <<4, f>>}
        /\ \A f \in Files : Len(recordsFrom(6, f)) = 2
        /\ countOf({"n"}) = 4
        /\ countOf({"r", "b", "q", "k"}) = 0
        /\ castleRecords = <<>>

\* The list has been built for White from the starting position.
C6_Witness ==
    /\ Done /\ board = startBoard /\ playerTurn = "w" /\ castling = allRights
    /\ Len(moveOptions) = 20

noPieces(S) == \A sq \in Squares : ownerAt(sq[1], sq[2]) # S

\* C7 as stated: a side owning no cell gets an empty list, and a side with
\* neither wing's castling condition gets no castle record.
C7_NoPiecesEmptyList ==
    Done =>
        /\ noPieces(playerTurn) => moveOptions = <<>>
        /\ (~kingsideCondition(playerTurn) /\ ~queensideCondition(playerTurn)) =>
               castleRecords = <<>>

\* C7 amended: a side owning no cell gets no ordinary record, and its list
\* is empty iff neither wing satisfies the castling condition (the castling
\* rule reads only the rights flags and the squares between); a side with
\* neither wing's condition gets no castle record.
C7_NoPiecesOnlyCastleRecords ==
    Done =>
        /\ noPieces(playerTurn) =>
              /\ ordinaryRecords = <<>>
              /\ (moveOptions = <<>>) <=>
                     (~kingsideCondition(playerTurn) /\ ~queensideCondition(playerTurn))
        /\ (~kingsideCondition(playerTurn) /\ ~queensideCondition(playerTurn)) =>
               castleRecords = <<>>

\* The mover owns no cell while the other side has pieces, and the list
\* came out empty.
C7_Witness ==
    /\ Done
    /\ noPieces(playerTurn)
    /\ ~noPieces(opposite(playerTurn))
    /\ moveOptions = <<>>

====
